---- MODULE Spec2Model ----
(***************************************************************************)
(* grunt-imageoptim (tasks/imageoptim.js): the imageoptim multi task.      *)
(* Loading the task file checks the shape of the configuration. A task     *)
(* invocation locates the ImageOptim-CLI binary, chains one batch per file *)
(* group and file type on a promise, and every batch runs processFiles:    *)
(* the checksum cache check, the optimizer subprocess and the exit handler *)
(* that fills the cache.                                                   *)
(***************************************************************************)
EXTENDS Integers, Sequences, FiniteSets, TLC

(* ---------------------------- bounds ----------------------------------- *)

\* file groups (task.files) of one task invocation
MaxGroups == 2

(* ------------------------- the file system ----------------------------- *)

\* the contents a file may have: the byte strings "0" and "1"
Content == {0, 1}

\* path.resolve() at load time: the directory of the Gruntfile
gruntFile == "/proj"

\* options.cache as configured by the project (null when unset)
cacheOption == "/proj/.cache"

\* the src lists a file group may have, relative to the Gruntfile: a file, a
\* directory, a file with the directory that contains it, an empty directory
\* with a path that does not exist, a path that does not exist alone, and a
\* directory whose only child is a directory
GroupChoices ==
    {<<"d/b">>, <<"d">>, <<"d", "d/b">>, <<"e", "x">>, <<"x">>, <<"my imgs">>}

\* fs.readdirSync(dir): the names of the immediate children
readdirSync(dir) ==
    CASE dir = "/proj/d" -> <<"b", "c">>
      [] dir = "/proj/e" -> <<>>
      [] dir = "/proj/my imgs" -> <<"deep">>
      [] dir = "/proj/my imgs/deep" -> <<"z">>
      [] OTHER -> <<>>

\* the regular files of the project the task can read; "/proj/my imgs/deep/z"
\* lies below every path the task opens
FilePaths == {"/proj/d/b", "/proj/d/c"}

\* the directories of the project
DirPaths == {"/proj/d", "/proj/e", "/proj/my imgs", "/proj/my imgs/deep"}

\* the candidate install locations of ImageOptim-CLI, in order
cliPaths == <<"/proj/node_modules/grunt-imageoptim/node_modules/imageoptim-cli/bin",
              "/proj/node_modules/imageoptim-cli/bin">>

\* path.join(dir, name)
pathJoin(dir, name) == dir \o "/" \o name

\* toAbsolute(relativePath): path.resolve(gruntFile, relativePath)
toAbsolute(relativePath) == pathJoin(gruntFile, relativePath)

\* isFileType(fileType): grunt.file.isFile / grunt.file.isDir
isFileType(fileType, file) ==
    IF fileType = "file" THEN toAbsolute(file) \in FilePaths
                         ELSE toAbsolute(file) \in DirPaths

\* md5FileSync(filename): the hex digest of the file's bytes
md5Hex(bytes) ==
    CASE bytes = 0 -> "cfcd2084"
      [] bytes = 1 -> "c4ca4238"
      [] bytes = 2 -> "c81e728d"
      [] OTHER -> "eccbc87e"

(* ----------------------------- helpers --------------------------------- *)

Range(s) == {s[k] : k \in 1..Len(s)}

(* ------------------------------ state ---------------------------------- *)

VARIABLES
    disk,       \* the bytes of every regular file of the project
    cacheDir,   \* whether the cache directory exists
    cache,      \* the cache directory: entry path -> stored bytes
    optimizer,  \* what ImageOptim turns each content into
    phase,      \* "Idle", "Loaded", "Fatal", "LoadFailed", "Dispatching",
                \* "Succeeded" or "Failed"
    config,     \* grunt.config.data.imageoptim as the load-time check read it
    cliPath,    \* the result of getPathToCli() in this invocation
    options,    \* task.options(...) of this invocation
    task,       \* task.files of this invocation
    chain,      \* the batches chained on `promise`, in chaining order
    batch,      \* per chained batch: its promise and processFiles closure
    procs,      \* the chained batches whose subprocess is running
    installed,  \* the candidate locations that exist in this invocation
    optimized,  \* history: the checksums of the contents that were optimized
                \* successfully with the cache enabled
    previous    \* history kept by RerunSpec: the files the last task
                \* invocation processed, when it succeeded with the cache
                \* enabled

vars == <<disk, cacheDir, cache, optimizer, phase, config, cliPath, options,
          task, chain, batch, procs, installed, optimized, previous>>

\* cache: null, the default of task.options
null == "null"

\* getPathToCli() when no candidate exists: [][0] of an empty array
undefined == "undefined"

\* the defaults of task.options
defaults ==
    [jpegMini |-> FALSE, imageAlpha |-> FALSE, quitAfter |-> FALSE, cache |-> null]

\* no child process
noChild == [via |-> "none", command |-> "", args |-> <<>>, cwd |-> ""]

\* what the external optimizer may be: any function of a file's bytes
Optimizers == [Content -> Content]

\* a batch before its then-callback has run
NewBatch ==
    [promise |-> "pending", called |-> FALSE, old_files |-> <<>>,
     files |-> <<>>, in_cache_path |-> <<>>, threw |-> FALSE,
     spawned |-> FALSE, child |-> noChild, stdin |-> <<>>,
     exitCode |-> -1, fromCache |-> {}, cacheBefore |-> <<>>,
     overwrote |-> {}]

(* ----------------------- deprecated configuration --------------------- *)

\* what the files property of an object of the configuration may be: not
\* there, an array of file objects, an array with a plain string, or Grunt's
\* files object (a destination-to-source mapping)
FilesValues ==
    {[type |-> "undefined", members |-> <<>>],
     [type |-> "array", members |-> <<"object">>],
     [type |-> "array", members |-> <<"object", "string">>],
     [type |-> "object", members |-> <<>>]}

\* the imageoptim configurations of a Gruntfile: its own files property, an
\* options object (here one that has a files list with a plain string) and
\* one target
Configs ==
    [files : {f \in FilesValues : f.members # <<"object">>},
     options : {[files |-> [type |-> "array", members |-> <<"object", "string">>]]},
     target : [files : FilesValues]]

\* grunt.config.data.imageoptim || {} when nothing is configured
noConfig ==
    LET none == [type |-> "undefined", members |-> <<>>]
    IN  [files |-> none, options |-> [files |-> none], target |-> [files |-> none]]

\* isTask of the Object.keys(config) loop
isTask(key) == key # "options" /\ key # "files"

\* tasks: the configuration itself, then every object value under a task key
tasksOf(cfg) ==
    LET keys == SelectSeq(<<"files", "options", "target">>, isTask)
    IN  <<cfg>> \o [k \in 1..Len(keys) |->
                        IF keys[k] = "options" THEN cfg.options ELSE cfg.target]

RECURSIVE someTask(_)
\* tasks.some(task => 'files' in task && task.files.some(isString)), task by
\* task: task.files.some is not a function when files is not an array
someTask(tasks) ==
    IF tasks = <<>> THEN "false"
    ELSE LET files == Head(tasks).files
         IN  IF files.type = "undefined" THEN someTask(Tail(tasks))
             ELSE IF files.type # "array" THEN "TypeError"
             ELSE IF \E m \in DOMAIN files.members : files.members[m] = "string"
                  THEN "true"
                  ELSE someTask(Tail(tasks))

(* ------------------------- subprocess invoker -------------------------- *)

\* directory.replace(/\s/g, '\\ ') on the directories of the project
escapeSpaces(directory) ==
    CASE directory = "/proj/my imgs" -> "/proj/my\\ imgs"
      [] directory = "/proj/my imgs/deep" -> "/proj/my\\ imgs/deep"
      [] OTHER -> directory

\* getCommandByDirectory(directory, options)
getCommandByDirectory(directory, opts) ==
    "./imageOptim"
        \o (IF opts.quitAfter THEN " --quit" ELSE "")
        \o (IF opts.imageAlpha THEN " --image-alpha" ELSE "")
        \o (IF opts.jpegMini THEN " --jpeg-mini" ELSE "")
        \o " --directory " \o escapeSpaces(directory)

\* executeDirectoryCommand(command, cwd): exec(command, {cwd: cwd})
executeDirectoryCommand(command, cwd) ==
    [via |-> "exec", command |-> command, args |-> <<>>, cwd |-> cwd]

\* getCliFlags(opts)
getCliFlags(opts) ==
    (IF opts.quitAfter THEN <<"--quit">> ELSE <<>>)
        \o (IF opts.imageAlpha THEN <<"--image-alpha">> ELSE <<>>)
        \o (IF opts.jpegMini THEN <<"--jpeg-mini">> ELSE <<>>)

\* spawn('./imageOptim', getCliFlags(opts), {cwd: opts.cliPath})
spawnImageOptim(opts) ==
    [via |-> "spawn", command |-> "./imageOptim", args |-> getCliFlags(opts),
     cwd |-> opts.cliPath]

(* --------------------------- checksum cache ---------------------------- *)

\* md5FileSync(file) on the current bytes of the file
md5FileSync(file, d) == md5Hex(d[file])

\* whether md5FileSync(file) can read the file: fs.readSync throws on a
\* directory
readable(file, d) == file \in DOMAIN d

\* a lookup that never finds the entry
existsSyncNever(p, c) == FALSE

\* fse.existsSync(in_cache_path[file])
existsSync(p, c) == p \in DOMAIN c

\* fse.copySync(src, dest) into the cache directory
copyToCache(bytes, dest, c) == (dest :> bytes) @@ c

\* a cache-hit branch that restores the bytes and still keeps the file
onCacheHitStillQueued(st, file, p, c) ==
    [st EXCEPT !.disk[file] = c[p],
               !.fromCache = @ \cup {<<file, c[p]>>},
               !.files = Append(@, file)]

\* the cache-hit branch of the forEach callback: restore the cached bytes
onCacheHit(st, file, p, c) ==
    [st EXCEPT !.disk[file] = c[p],
               !.fromCache = @ \cup {<<file, c[p]>>}]

\* a cache-miss branch that queues the file twice
onCacheMissTwice(st, file) == [st EXCEPT !.files = Append(Append(@, file), file)]

\* the cache-miss branch of the forEach callback: keep the file for the optimizer
onCacheMiss(st, file) == [st EXCEPT !.files = Append(@, file)]

RECURSIVE forEachOldFile(_, _, _, _)
\* old_files.forEach(...) of processFiles, file by file
forEachOldFile(old_files, cache_dir, c, st) ==
    IF old_files = <<>> THEN st
    ELSE IF ~readable(Head(old_files), st.disk) THEN [st EXCEPT !.threw = TRUE]
    ELSE LET file == Head(old_files)
             md5 == md5FileSync(file, st.disk)
             p == pathJoin(cache_dir, md5)
             st1 == [st EXCEPT !.in_cache_path = (file :> p) @@ @]
         IN  forEachOldFile(Tail(old_files), cache_dir, c,
                 IF existsSync(p, c) THEN onCacheHit(st1, file, p, c)
                                     ELSE onCacheMiss(st1, file))

\* a processFiles without the early return
resolvesEarlyNever(files) == FALSE

\* whether processFiles returns before spawn: the work list is empty
resolvesEarly(files) == Len(files) = 0

\* processFiles(files, opts) up to its return: the cache check and the spawn;
\* an exception thrown in the then-callback rejects the promise of the batch
processFiles(files, opts, d, c) ==
    IF opts.cache # null
    THEN LET st == forEachOldFile(files, opts.cache, c,
                       [disk |-> d, files |-> <<>>, in_cache_path |-> <<>>,
                        fromCache |-> {}, threw |-> FALSE])
             r == [disk |-> st.disk, cacheDir |-> TRUE, old_files |-> files,
                   files |-> st.files, in_cache_path |-> st.in_cache_path,
                   fromCache |-> st.fromCache, threw |-> st.threw,
                   spawned |-> FALSE, child |-> noChild, stdin |-> <<>>,
                   promise |-> "fulfilled"]
         IN  IF st.threw THEN [r EXCEPT !.promise = "rejected"]
             ELSE IF resolvesEarly(st.files) THEN r
             ELSE [r EXCEPT !.spawned = TRUE, !.child = spawnImageOptim(opts),
                            !.stdin = st.files, !.promise = "pending"]
    ELSE [disk |-> d, cacheDir |-> cacheDir, old_files |-> files,
          files |-> files, in_cache_path |-> <<>>, fromCache |-> {},
          threw |-> FALSE,
          spawned |-> TRUE, child |-> spawnImageOptim(opts), stdin |-> files,
          promise |-> "pending"]

RECURSIVE getDirFiles(_, _)
\* getDirFiles(dir): readdirSync(dir).map(f => path.join(dir, f))
getDirFiles(dir, list) ==
    IF list = <<>> THEN <<>>
    ELSE <<pathJoin(dir, Head(list))>> \o getDirFiles(dir, Tail(list))

RECURSIVE walkDirectories(_)
\* an expansion that descends into the directories it meets
walkDirectories(files) ==
    IF files = <<>> THEN <<>>
    ELSE LET children == getDirFiles(Head(files), readdirSync(Head(files)))
         IN  children
                 \o walkDirectories(SelectSeq(children, LAMBDA p : p \in DirPaths))
                 \o walkDirectories(Tail(files))

RECURSIVE expandDirectories(_)
\* new_files of processDirectories: the children of every directory, concatenated
expandDirectories(files) ==
    IF files = <<>> THEN <<>>
    ELSE getDirFiles(Head(files), readdirSync(Head(files)))
             \o expandDirectories(Tail(files))

\* a directory batch that runs the directory command on its first directory
processDirectoriesByCommand(files, opts, d, c) ==
    [disk |-> d, cacheDir |-> cacheDir, old_files |-> <<>>, files |-> <<>>,
     in_cache_path |-> <<>>, fromCache |-> {}, threw |-> FALSE,
     spawned |-> TRUE,
     child |-> executeDirectoryCommand(
                   getCommandByDirectory(Head(files), opts), opts.cliPath),
     stdin |-> <<>>, promise |-> "pending"]

\* processDirectories(files, opts)
processDirectories(files, opts, d, c) ==
    processFiles(expandDirectories(files), opts, d, c)

\* processor(files, {...}) of the then-callback of processBatch
processor(b, opts, d, c) ==
    IF b.fileType = "dir" THEN processDirectories(b.files, opts, d, c)
                          ELSE processFiles(b.files, opts, d, c)

\* the regular files of the list processFiles receives for a chained batch
examined(b) ==
    FilePaths \cap
        IF b.fileType = "dir" THEN Range(expandDirectories(b.files))
                              ELSE Range(b.files)

(* --------------------------- task orchestrator ------------------------- *)

\* task.files of an invocation: up to MaxGroups file groups
TaskFiles == UNION {[1..n -> GroupChoices] : n \in 0..MaxGroups}

\* which candidate locations may exist when a task runs: none, the second
\* alone, or both
InstallChoices == {{}, {cliPaths[2]}, {cliPaths[1], cliPaths[2]}}

\* getPathToCli(): the first candidate location that exists
getPathToCli(found) ==
    LET existing == SelectSeq(cliPaths, LAMBDA p : p \in found)
    IN  IF existing = <<>> THEN undefined ELSE existing[1]

RECURSIVE filterMap(_, _)
\* taskFiles.filter(isFileType(fileType)).map(toAbsolute)
filterMap(fileType, taskFiles) ==
    IF taskFiles = <<>> THEN <<>>
    ELSE IF isFileType(fileType, Head(taskFiles))
         THEN <<toAbsolute(Head(taskFiles))>> \o filterMap(fileType, Tail(taskFiles))
         ELSE filterMap(fileType, Tail(taskFiles))

\* processBatch(fileType, ..., taskFiles, promise): promise itself for an
\* empty list, else promise.then(callback); g is the group it is called for
processBatch(fileType, g, taskFiles, promise) ==
    LET files == filterMap(fileType, taskFiles)
    IN  IF Len(files) = 0 THEN promise
        ELSE Append(promise, [group |-> g, fileType |-> fileType, files |-> files])

RECURSIVE forEachGroupDirFirst(_, _, _)
\* a loop that chains the directory batch of a group before its file batch
forEachGroupDirFirst(taskFiles, g, promise) ==
    IF g > Len(taskFiles) THEN promise
    ELSE forEachGroupDirFirst(taskFiles, g + 1,
             processBatch("file", g, taskFiles[g],
                 processBatch("dir", g, taskFiles[g], promise)))

RECURSIVE forEachGroup(_, _, _)
\* task.files.forEach: the file batch, then the directory batch of each group
forEachGroup(taskFiles, g, promise) ==
    IF g > Len(taskFiles) THEN promise
    ELSE forEachGroup(taskFiles, g + 1,
             processBatch("dir", g, taskFiles[g],
                 processBatch("file", g, taskFiles[g], promise)))

\* the state of the promise the i-th then-callback is chained on; q() for i = 1
promiseState(i) == IF i = 0 THEN "fulfilled" ELSE batch[i].promise

\* callbacks started without waiting for the promise they are chained on
thenReadyUnchained(i) == ~batch[i].called

\* callbacks that also run when the promise they are chained on is rejected
thenReadyOnSettle(i) ==
    ~batch[i].called /\ promiseState(i - 1) \in {"fulfilled", "rejected"}

\* promise.then(callback): the callback runs once the promise it is chained on
\* is fulfilled
thenReady(i) == ~batch[i].called /\ promiseState(i - 1) = "fulfilled"

(* ------------------------------ actions -------------------------------- *)

Init ==
    /\ disk \in [FilePaths -> Content]
    /\ cacheDir = FALSE
    /\ cache = <<>>
    /\ optimizer \in Optimizers
    /\ phase = "Idle"
    /\ config = noConfig
    /\ cliPath = undefined
    /\ options = defaults
    /\ task = [files |-> <<>>]
    /\ chain = <<>>
    /\ batch = <<>>
    /\ procs = {}
    /\ installed = {}
    /\ optimized = {}
    /\ previous = {}

\* grunt loads tasks/imageoptim.js: the check of the configuration shape
\* runs; grunt.fail.fatal ends the process, an exception leaves the task
\* unregistered
LoadTasks(cfg) ==
    /\ phase = "Idle"
    /\ config' = cfg
    /\ LET hasDeprecatedConfig == someTask(tasksOf(cfg))
       IN  phase' = CASE hasDeprecatedConfig = "true" -> "Fatal"
                      [] hasDeprecatedConfig = "TypeError" -> "LoadFailed"
                      [] OTHER -> "Loaded"
    /\ UNCHANGED <<disk, cacheDir, cache, optimizer, cliPath, options, task,
                   chain, batch, procs, installed, optimized, previous>>

\* a task callback that goes on without the binary
RunTaskUnchecked(taskFiles, cacheOpt, found) ==
    /\ phase = "Loaded"
    /\ config' = noConfig
    /\ installed' = found
    /\ cliPath' = getPathToCli(found)
    /\ options' = [defaults EXCEPT !.cache = cacheOpt]
    /\ task' = [files |-> taskFiles]
    /\ procs' = {}
    /\ phase' = "Dispatching"
    /\ chain' = forEachGroup(taskFiles, 1, <<>>)
    /\ batch' = [i \in 1..Len(chain') |-> NewBatch]
    /\ UNCHANGED <<disk, cacheDir, cache, optimizer, optimized, previous>>

\* the registerMultiTask callback, up to promise.done(done); it reads
\* this.files and this.options, the raw configuration no more
RunTask(taskFiles, cacheOpt, found) ==
    /\ phase = "Loaded"
    /\ config' = noConfig
    /\ installed' = found
    /\ cliPath' = getPathToCli(found)
    /\ options' = [defaults EXCEPT !.cache = cacheOpt]
    /\ task' = [files |-> taskFiles]
    /\ procs' = {}
    /\ IF cliPath' = undefined
       THEN /\ phase' = "Failed"
            /\ chain' = <<>>
       ELSE /\ phase' = "Dispatching"
            /\ chain' = forEachGroup(taskFiles, 1, <<>>)
    /\ batch' = [i \in 1..Len(chain') |-> NewBatch]
    /\ UNCHANGED <<disk, cacheDir, cache, optimizer, optimized, previous>>

\* the then-callback of the i-th chained batch: processor(files, opts)
StartBatch(i) ==
    /\ phase = "Dispatching"
    /\ i \in 1..Len(chain)
    /\ thenReady(i)
    /\ LET opts == [cliPath |-> cliPath, jpegMini |-> options.jpegMini,
                    imageAlpha |-> options.imageAlpha,
                    quitAfter |-> options.quitAfter, cache |-> options.cache]
           r == processor(chain[i], opts, disk, cache)
       IN  /\ disk' = r.disk
           /\ cacheDir' = r.cacheDir
           /\ batch' = [batch EXCEPT ![i] =
                  [@ EXCEPT !.called = TRUE, !.promise = r.promise,
                            !.old_files = r.old_files, !.threw = r.threw,
                            !.files = r.files, !.in_cache_path = r.in_cache_path,
                            !.spawned = r.spawned, !.child = r.child,
                            !.stdin = r.stdin,
                            !.fromCache = r.fromCache, !.cacheBefore = cache]]
           /\ procs' = IF r.spawned THEN procs \cup {i} ELSE procs
    /\ UNCHANGED <<cache, optimizer, phase, config, cliPath, options, task,
                   chain, installed, optimized, previous>>

\* the exit codes a subprocess may end with: 0 is success
ExitCodes == {0, 1}

\* the files as the subprocess leaves them: it optimizes the paths it was
\* given on stdin in place (all of them when it reports success)
optimizeFiles(d, done) ==
    [f \in DOMAIN d |-> IF f \in done THEN optimizer[d[f]] ELSE d[f]]

RECURSIVE addToCacheRehashed(_, _, _, _)
\* an exit handler that names each entry by the checksum of the optimized file
addToCacheRehashed(files, in_cache_path, d, c) ==
    IF files = <<>> THEN [cache |-> c, threw |-> FALSE, overwrote |-> {}]
    ELSE IF Head(files) \notin DOMAIN in_cache_path
         THEN [cache |-> c, threw |-> TRUE, overwrote |-> {}]
         ELSE addToCacheRehashed(Tail(files), in_cache_path, d,
                  copyToCache(d[Head(files)],
                              pathJoin(cacheOption, md5FileSync(Head(files), d)), c))

RECURSIVE addToCache(_, _, _, _)
\* files.forEach of the exit handler: fse.copySync(file, in_cache_path[file]);
\* copySync throws when in_cache_path has no path for the file; overwrote are
\* the destinations that existed when copySync wrote them
addToCache(files, in_cache_path, d, c) ==
    IF files = <<>> THEN [cache |-> c, threw |-> FALSE, overwrote |-> {}]
    ELSE IF Head(files) \notin DOMAIN in_cache_path
         THEN [cache |-> c, threw |-> TRUE, overwrote |-> {}]
         ELSE LET dest == in_cache_path[Head(files)]
                  rest == addToCache(Tail(files), in_cache_path, d,
                              copyToCache(d[Head(files)], dest, c))
              IN  [rest EXCEPT !.overwrote =
                       @ \cup (IF dest \in DOMAIN c THEN {dest} ELSE {})]

\* an exit handler that takes every exit for a success
exitHandlerIgnoresCode(code, b, d, c) ==
    LET r == addToCache(b.files, b.in_cache_path, d, c)
    IN  [cache |-> r.cache, threw |-> r.threw, overwrote |-> r.overwrote,
         promise |-> IF r.threw THEN "pending" ELSE "fulfilled"]

\* imageOptimCli.on('exit', function(code) {...})
exitHandler(code, b, d, c) ==
    IF code = 0
    THEN LET r == addToCache(b.files, b.in_cache_path, d, c)
         IN  [cache |-> r.cache, threw |-> r.threw, overwrote |-> r.overwrote,
              promise |-> IF r.threw THEN "pending" ELSE "fulfilled"]
    ELSE [cache |-> c, threw |-> FALSE, overwrote |-> {}, promise |-> "rejected"]

\* the subprocess of batch i ends with `code`, having optimized `done`
SubprocessExit(i, code, done) ==
    /\ phase = "Dispatching"
    /\ i \in procs
    /\ done \subseteq Range(batch[i].stdin)
    /\ code = 0 => done = Range(batch[i].stdin) \cap DOMAIN disk
    /\ disk' = optimizeFiles(disk, done)
    /\ LET r == exitHandler(code, batch[i], disk', cache)
       IN  /\ cache' = r.cache
           /\ batch' = [batch EXCEPT ![i] =
                  [@ EXCEPT !.promise = r.promise, !.exitCode = code,
                            !.overwrote = r.overwrote]]
           \* an exception thrown by an event handler is uncaught:
           \* grunt fails the task fatally
           /\ phase' = IF r.threw THEN "Failed" ELSE phase
           /\ optimized' =
                  IF code = 0 /\ options.cache # null /\ ~r.threw
                  THEN optimized \cup {md5Hex(disk[f]) : f \in Range(batch[i].stdin)}
                  ELSE optimized
    /\ procs' = procs \ {i}
    /\ UNCHANGED <<cacheDir, optimizer, config, cliPath, options, task, chain,
                   installed, previous>>

\* a rejection passes through promise.then(callback): the callback never runs
PropagateRejection(i) ==
    /\ phase = "Dispatching"
    /\ i \in 1..Len(chain)
    /\ ~batch[i].called
    /\ batch[i].promise = "pending"
    /\ promiseState(i - 1) = "rejected"
    /\ batch' = [batch EXCEPT ![i].promise = "rejected"]
    /\ UNCHANGED <<disk, cacheDir, cache, optimizer, phase, config, cliPath,
                   options, task, chain, procs, installed, optimized, previous>>

\* done attached to q() itself: the chained promises are never awaited
donePromiseUnchained == promiseState(0)

\* the promise `promise.done(done)` is called on: the last one chained
donePromise == promiseState(Len(chain))

\* promise.done(done): done() once the last chained promise is fulfilled
TaskDone ==
    /\ phase = "Dispatching"
    /\ donePromise = "fulfilled"
    /\ phase' = "Succeeded"
    /\ UNCHANGED <<disk, cacheDir, cache, optimizer, config, cliPath, options,
                   task, chain, batch, procs, installed, optimized, previous>>

\* promise.done(done): a rejection is rethrown and grunt fails the task
TaskFail ==
    /\ phase = "Dispatching"
    /\ donePromise = "rejected"
    /\ phase' = "Failed"
    /\ UNCHANGED <<disk, cacheDir, cache, optimizer, config, cliPath, options,
                   task, chain, batch, procs, installed, optimized, previous>>

\* the grunt process ends: nothing of the invocation outlives it but the
\* files and the cache directory
endProcess ==
    /\ phase \in {"Succeeded", "Failed", "Fatal", "LoadFailed"}
    /\ phase' = "Idle"
    /\ config' = noConfig
    /\ cliPath' = undefined
    /\ options' = defaults
    /\ task' = [files |-> <<>>]
    /\ chain' = <<>>
    /\ batch' = <<>>
    /\ procs' = {}
    /\ installed' = {}
    /\ UNCHANGED <<disk, cacheDir, cache, optimizer, optimized>>

\* the grunt process ends
ProcessExit == endProcess /\ UNCHANGED previous

\* the grunt process ends, and the history notes what a successful invocation
\* with the cache enabled processed
ProcessExitNoted ==
    /\ endProcess
    /\ previous' =
           CASE phase = "Succeeded" /\ options.cache # null ->
                    UNION {examined(chain[i]) : i \in DOMAIN chain}
             [] phase \in {"Succeeded", "Failed"} -> {}
             [] OTHER -> previous

Next ==
    \/ \E cfg \in Configs : LoadTasks(cfg)
    \/ \E taskFiles \in TaskFiles, cacheOpt \in {null, cacheOption},
          found \in InstallChoices :
           RunTask(taskFiles, cacheOpt, found)
    \/ \E i \in 1..MaxGroups * 2 : StartBatch(i)
    \/ \E i \in procs, code \in ExitCodes, done \in SUBSET FilePaths :
           SubprocessExit(i, code, done)
    \/ \E i \in 1..MaxGroups * 2 : PropagateRejection(i)
    \/ TaskDone
    \/ TaskFail
    \/ ProcessExit

Spec == Init /\ [][Next]_vars

\* the same steps, with the history of the last invocation kept
RerunNext ==
    \/ \E cfg \in Configs : LoadTasks(cfg)
    \/ \E taskFiles \in TaskFiles, cacheOpt \in {null, cacheOption},
          found \in InstallChoices :
           RunTask(taskFiles, cacheOpt, found)
    \/ \E i \in 1..MaxGroups * 2 : StartBatch(i)
    \/ \E i \in procs, code \in ExitCodes, done \in SUBSET FilePaths :
           SubprocessExit(i, code, done)
    \/ \E i \in 1..MaxGroups * 2 : PropagateRejection(i)
    \/ TaskDone
    \/ TaskFail
    \/ ProcessExitNoted

RerunSpec == Init /\ [][RerunNext]_vars

\* the event loop runs every promise callback that is due
FairSpec ==
    /\ Spec
    /\ WF_vars(\E i \in 1..MaxGroups * 2 : StartBatch(i))
    /\ WF_vars(\E i \in 1..MaxGroups * 2 : PropagateRejection(i))
    /\ WF_vars(TaskDone)
    /\ WF_vars(TaskFail)

\* FairSpec with every spawned subprocess exiting in the end
LiveSpec ==
    /\ FairSpec
    /\ WF_vars(\E i \in procs, code \in ExitCodes, done \in SUBSET FilePaths :
                   SubprocessExit(i, code, done))

(* ------------------------------ properties ----------------------------- *)

\* this step is the then-callback of batch i
Begins(i) ==
    /\ i \in DOMAIN batch /\ i \in DOMAIN batch'
    /\ ~batch[i].called /\ batch'[i].called

\* this step is the exit of the subprocess of batch i
Exits(i) ==
    /\ i \in DOMAIN batch /\ i \in DOMAIN batch'
    /\ batch[i].exitCode = -1 /\ batch'[i].exitCode # -1

\* the cache entry a file's current bytes name
entryOf(f) == pathJoin(cacheOption, md5Hex(disk[f]))

\* C1: with the cache option set, every file of a batch whose checksum names
\* an existing cache entry when the batch examines it has its content
\* overwritten with that entry's bytes and is not written to the optimizer's
\* standard input.
C1_CacheHitRestoredAndSkipped ==
    [][\A i \in DOMAIN batch :
         (Begins(i) /\ options.cache # null) =>
             \A f \in examined(chain[i]) :
                 entryOf(f) \in DOMAIN cache =>
                     /\ disk'[f] = cache[entryOf(f)]
                     /\ f \notin Range(batch'[i].stdin)]_vars

\* a batch that restored one file from the cache and sent another to the optimizer
C1_Witness ==
    \E i \in DOMAIN batch :
        /\ options.cache # null
        /\ batch[i].fromCache # {}
        /\ batch[i].spawned
        /\ \A h \in batch[i].fromCache : h[1] \notin Range(batch[i].stdin)

C3_FailedExitRejectsAndLeavesCache ==
    \A i \in DOMAIN batch :
        batch[i].exitCode \notin {-1, 0} =>
            /\ batch[i].promise = "rejected"
            /\ cache = batch[i].cacheBefore

\* a batch that failed with the cache enabled, entries present and a file
\* already rewritten by the optimizer
C3_Witness ==
    \E i \in DOMAIN batch :
        /\ options.cache # null
        /\ batch[i].exitCode = 1
        /\ batch[i].cacheBefore # <<>>
        /\ \E f \in Range(batch[i].stdin) : batch[i].in_cache_path[f] # entryOf(f)

\* C4: at every moment of a task invocation at most one optimizer subprocess
\* is running.
C4_AtMostOneSubprocess == Cardinality(procs) <= 1

\* the subprocess of the third chained batch, a directory batch of the second
\* group, is running alone
C4_Witness ==
    /\ Len(chain) = 3
    /\ chain[3].group = 2 /\ chain[3].fileType = "dir"
    /\ procs = {3}

\* C5: batches are chained group by group in declared order, the file batch
\* of a group before its directory batch, and a batch begins only once the
\* promise of the batch before it is fulfilled.
C5_FixedOrderSequential ==
    /\ \A i, j \in DOMAIN chain :
           i < j =>
               \/ chain[i].group < chain[j].group
               \/ /\ chain[i].group = chain[j].group
                  /\ chain[i].fileType = "file"
                  /\ chain[j].fileType = "dir"
    /\ \A i \in DOMAIN batch :
           batch[i].called => \A j \in 1..(i - 1) : batch[j].promise = "fulfilled"

\* four batches of two groups, all begun in turn
C5_Witness ==
    /\ Len(chain) = 4
    /\ chain[1].group = 1 /\ chain[2].group = 1
    /\ chain[3].group = 2 /\ chain[4].group = 2
    /\ \A i \in DOMAIN batch : batch[i].called

\* a chained batch promise is rejected
AnyRejected == \E i \in DOMAIN batch : batch[i].promise = "rejected"

\* under FairSpec a rejected batch leads to the failure of the task
RejectionLeadsToFailure == AnyRejected ~> phase = "Failed"

\* C6: done is signalled only after every chained batch promise is fulfilled;
\* once a batch is rejected done is not signalled, and until the task has
\* failed its next step is the rejection passing down the chain to its failure.
C6_DoneOnlyAfterAllResolved ==
    /\ phase = "Succeeded" =>
           \A i \in DOMAIN batch : batch[i].promise = "fulfilled"
    /\ AnyRejected =>
           /\ phase \in {"Dispatching", "Failed"}
           /\ ~ENABLED TaskDone
           /\ phase = "Dispatching" =>
                  ENABLED (TaskFail \/ \E i \in DOMAIN batch : PropagateRejection(i))

\* done signalled after three or more batches, one of them by a subprocess
C6_Witness ==
    /\ phase = "Succeeded"
    /\ Len(chain) >= 3
    /\ \E i \in DOMAIN batch : batch[i].exitCode = 0

\* C7: after a batch of an invocation is rejected no later batch runs: no
\* subprocess is spawned or running, no file is restored from the cache, no
\* cache entry is written and the failed batch is not run again.
C7_RejectionAbortsChain ==
    \A i \in DOMAIN batch :
        batch[i].promise = "rejected" =>
            /\ procs = {}
            /\ \A j \in DOMAIN batch :
                   j > i => /\ ~batch[j].called
                            /\ ~batch[j].spawned
                            /\ batch[j].fromCache = {}
            /\ \A j \in DOMAIN batch :
                   batch[j].exitCode \notin {-1, 0} => cache = batch[j].cacheBefore

\* a failed first batch with two later batches rejected unrun
C7_Witness ==
    /\ Len(chain) >= 3
    /\ options.cache # null
    /\ batch[1].exitCode = 1
    /\ \A j \in 2..Len(chain) : batch[j].promise = "rejected" /\ ~batch[j].called
    /\ phase = "Failed"

\* C8: when the binary exists at none of the candidate locations the
\* invocation fails at once: nothing is chained, no subprocess is spawned, the
\* cache directory is not created and no file or cache entry is touched.
C8_BinaryNotFoundFailsFirst ==
    [][/\ (phase = "Loaded" /\ phase' # "Loaded" /\ installed' = {}) =>
              /\ phase' = "Failed"
              /\ chain' = <<>> /\ batch' = <<>> /\ procs' = {}
              /\ disk' = disk /\ cache' = cache /\ cacheDir' = cacheDir
       /\ (phase = "Failed" /\ installed = {}) =>
              /\ phase' = "Idle"
              /\ disk' = disk /\ cache' = cache /\ cacheDir' = cacheDir
      ]_vars

\* an invocation with the cache option set that failed for want of the binary
C8_Witness ==
    /\ phase = "Failed"
    /\ installed = {}
    /\ options.cache # null
    /\ ~cacheDir

\* C9: with the cache option set, a batch whose cache check ends with an
\* empty reduced work list spawns no subprocess and is resolved.
C9_EmptyWorkListResolves ==
    \A i \in DOMAIN batch :
        (/\ batch[i].called /\ options.cache # null
         /\ ~batch[i].threw /\ batch[i].files = <<>>) =>
            /\ ~batch[i].spawned
            /\ i \notin procs
            /\ batch[i].exitCode = -1
            /\ batch[i].promise = "fulfilled"

\* a directory batch whose two files were both cache hits
C9_Witness ==
    \E i \in DOMAIN batch :
        /\ batch[i].called
        /\ options.cache # null
        /\ batch[i].files = <<>>
        /\ Cardinality(batch[i].fromCache) = 2

\* C10: once a content with checksum H was optimized successfully with the
\* cache enabled, a later batch with the cache enabled does not send a file
\* with checksum H to the optimizer, and spawns no subprocess when all its
\* files are such.
C10_RoundTripShortCircuits ==
    [][\A i \in DOMAIN batch :
         (Begins(i) /\ options.cache # null) =>
             /\ \A f \in examined(chain[i]) :
                    md5Hex(disk[f]) \in optimized => f \notin Range(batch'[i].stdin)
             /\ (\A f \in examined(chain[i]) : md5Hex(disk[f]) \in optimized)
                    => ~batch'[i].spawned /\ procs' = procs]_vars

\* the first batch of an invocation, one file, answered from an earlier
\* invocation's cache entry without a subprocess
C10_Witness ==
    /\ Len(chain) >= 1
    /\ chain[1].fileType = "file"
    /\ batch[1].called
    /\ ~batch[1].spawned
    /\ \E h \in batch[1].fromCache : md5Hex(h[2]) \notin optimized

\* the paths of the immediate children of a directory, as the file system
\* lists them
childPaths(dir) ==
    {dir \o "/" \o readdirSync(dir)[n] : n \in DOMAIN readdirSync(dir)}

\* C11: every source path of a group is classified by the file system as a
\* file or a directory and resolved against the Gruntfile's directory; a path
\* that is neither is in no batch; a file batch hands its files to
\* processFiles as they are, and a directory batch hands processFiles exactly
\* the immediate children of its directories, never a deeper descendant.
C11_PartitionAndExpansion ==
    /\ cliPath # undefined =>
           \A g \in DOMAIN task.files :
               \A k \in DOMAIN task.files[g] :
                   LET abs == gruntFile \o "/" \o task.files[g][k]
                       batched(t) ==
                           {i \in DOMAIN chain :
                                /\ chain[i].fileType = t
                                /\ abs \in Range(chain[i].files)}
                   IN  /\ abs \in FilePaths =>
                              /\ \E i \in batched("file") : chain[i].group = g
                              /\ batched("dir") = {}
                       /\ abs \in DirPaths =>
                              /\ \E i \in batched("dir") : chain[i].group = g
                              /\ batched("file") = {}
                       /\ abs \notin FilePaths \cup DirPaths =>
                              batched("file") \cup batched("dir") = {}
    /\ \A i \in DOMAIN chain :
           \A p \in Range(chain[i].files) :
               \E k \in DOMAIN task.files[chain[i].group] :
                   p = gruntFile \o "/" \o task.files[chain[i].group][k]
    /\ \A i \in DOMAIN batch :
           batch[i].called =>
               IF chain[i].fileType = "file"
               THEN batch[i].old_files = chain[i].files
               ELSE /\ Range(batch[i].old_files) =
                          UNION {childPaths(dir) : dir \in Range(chain[i].files)}
                    /\ \A m, n \in DOMAIN batch[i].old_files :
                           batch[i].old_files[m] = batch[i].old_files[n] => m = n

\* a directory batch of a directory that holds a directory, begun after a
\* group whose source list names a path that does not exist
C11_Witness ==
    /\ Len(task.files) = 2
    /\ task.files[1] = <<"e", "x">>
    /\ \E i \in DOMAIN batch :
           /\ batch[i].called
           /\ chain[i].files = <<"/proj/my imgs">>
           /\ batch[i].old_files = <<"/proj/my imgs/deep">>

\* C12 as stated: a directory batch that starts the optimizer starts it in
\* directory mode: shell-executed with the command "./imageOptim --directory
\* <path>", spaces of the path escaped, and no file path written to stdin.
C12_DirectoryBatchUsesDirectoryMode ==
    \A i \in DOMAIN batch :
        (chain[i].fileType = "dir" /\ batch[i].spawned) =>
            /\ batch[i].child.via = "exec"
            /\ \E dir \in Range(chain[i].files) :
                   batch[i].child.command =
                       "./imageOptim --directory " \o escapeSpaces(dir)
            /\ batch[i].stdin = <<>>

\* C12 amended: a directory batch starts the optimizer as a file batch does:
\* "./imageOptim" spawned in the binary's directory with the flag arguments
\* alone, never shell-executed and never with "--directory", and what it
\* writes to stdin are immediate children of its directories, all of them when
\* the cache option is unset.
C12_DirectoryBatchUsesStdin ==
    \A i \in DOMAIN batch :
        (chain[i].fileType = "dir" /\ batch[i].spawned) =>
            /\ batch[i].child =
                   [via |-> "spawn", command |-> "./imageOptim", args |-> <<>>,
                    cwd |-> cliPath]
            /\ Range(batch[i].stdin) \subseteq
                   UNION {childPaths(dir) : dir \in Range(chain[i].files)}
            /\ options.cache = null =>
                   Range(batch[i].stdin) =
                       UNION {childPaths(dir) : dir \in Range(chain[i].files)}

\* the subprocess of a directory batch of a directory with a space in its
\* name, given the path of the directory's child on stdin
C12_Witness ==
    \E i \in DOMAIN batch :
        /\ chain[i].files = <<"/proj/my imgs">>
        /\ batch[i].spawned
        /\ i \in procs
        /\ batch[i].stdin = <<"/proj/my imgs/deep">>

\* C13 as stated: an entry that exists is never removed, never changes its
\* bytes and is never written again, by any step.
C13_EntriesNeverWrittenAgain ==
    [][/\ \A p \in DOMAIN cache :
            p \in DOMAIN cache' /\ cache'[p] = cache[p]
       /\ \A i \in DOMAIN batch' : batch'[i].overwrote = {}]_vars

\* C13 amended: an entry that exists when a step begins is not removed, not
\* changed and not written by that step; the only entries an exit handler
\* writes more than once are those it creates itself, once per file of its
\* work list with that checksum.
C13_EntriesReadOnlyAfterHandler ==
    [][/\ \A p \in DOMAIN cache :
            p \in DOMAIN cache' /\ cache'[p] = cache[p]
       /\ \A i \in DOMAIN batch' :
            /\ Exits(i) =>
                   /\ batch'[i].overwrote \cap DOMAIN cache = {}
                   /\ \A p \in batch'[i].overwrote :
                          Cardinality({f \in Range(batch[i].files) :
                                           batch[i].in_cache_path[f] = p}) > 1
            /\ ~Exits(i) /\ i \in DOMAIN batch =>
                   batch'[i].overwrote = batch[i].overwrote]_vars

\* an entry its exit handler wrote for two files with the same bytes, later
\* read by another batch that restores a file from it
C13_Witness ==
    \E i, j \in DOMAIN batch :
        /\ i < j
        /\ batch[i].overwrote # {}
        /\ batch[j].called
        /\ \E h \in batch[j].fromCache :
               batch[j].in_cache_path[h[1]] \in batch[i].overwrote

\* a files list with at least one plain-string member
hasStringMember(files) ==
    files.type = "array" /\ \E m \in DOMAIN files.members : files.members[m] = "string"

\* C14 as stated: when the configuration or its target has a files list with
\* a plain-string member the load ends in the fatal failure, from which no
\* task runs: no binary is looked up, nothing is chained or spawned, no file
\* or cache entry changes; any other configuration passes the check.
C14_DeprecatedConfigRejected ==
    [][/\ (phase = "Idle" /\ phase' # "Idle") =>
              IF hasStringMember(config'.files) \/ hasStringMember(config'.target.files)
              THEN phase' = "Fatal"
              ELSE phase' = "Loaded"
       /\ phase = "Fatal" =>
              /\ phase' = "Idle"
              /\ installed' = {} /\ chain' = <<>> /\ batch' = <<>> /\ procs' = {}
              /\ disk' = disk /\ cache' = cache /\ cacheDir' = cacheDir
      ]_vars

\* C15 as stated: a subprocess is spawned for a batch, file or directory, with
\* or without the cache, only when the list of paths written to its standard
\* input is not empty.
C15_NoSubprocessForEmptyBatch ==
    \A i \in DOMAIN batch : batch[i].spawned => batch[i].stdin # <<>>

\* C16 as stated: when every spawned subprocess exits in the end, a task
\* invocation that is dispatching batches ends Succeeded or Failed, and the
\* promise of a batch whose subprocess has exited is resolved or rejected.
C16_InvocationTerminates ==
    /\ (phase = "Dispatching") ~> (phase \in {"Succeeded", "Failed"})
    /\ [](\A i \in DOMAIN batch :
             batch[i].exitCode # -1 => batch[i].promise \in {"fulfilled", "rejected"})

\* C17 as stated: with the cache option unset, a batch whose subprocess exited
\* with 0 is resolved, every file it was given went to the optimizer, nothing
\* was looked up in or restored from the cache and no cache entry was written.
C17_CacheUnsetLeavesFilesAlone ==
    \A i \in DOMAIN batch :
        (options.cache = null /\ batch[i].exitCode = 0) =>
            /\ batch[i].promise = "fulfilled"
            /\ batch[i].stdin = batch[i].old_files
            /\ batch[i].in_cache_path = <<>>
            /\ batch[i].fromCache = {}
            /\ cache = batch[i].cacheBefore

\* C18 as stated: in an invocation with the cache enabled that follows a
\* successful invocation with the cache enabled, a batch whose files were all
\* processed by that invocation finds every one of them in the cache and
\* spawns no subprocess.
C18_RerunIsStable ==
    \A i \in DOMAIN batch :
        (/\ options.cache # null
         /\ batch[i].called
         /\ examined(chain[i]) \subseteq previous) =>
            /\ ~batch[i].spawned
            /\ examined(chain[i]) = {h[1] : h \in batch[i].fromCache}

\* how often a path occurs in a list
occurrences(list, path) == Cardinality({k \in DOMAIN list : list[k] = path})

\* the places, batch and line, at which a file was written to the standard
\* input of an optimizer subprocess in this invocation
handings(f) ==
    UNION {{<<i, k>> : k \in {n \in DOMAIN batch[i].stdin : batch[i].stdin[n] = f}} :
               i \in DOMAIN batch}

====
